---- MODULE Spec2Model ----
(***************************************************************************)
(* photutils/datasets/make.py: synthetic images of 2D Gaussian sources     *)
(* with Gaussian or Poisson noise.                                         *)
(*                                                                         *)
(* Floating point values are modelled by integers, an image by its shape   *)
(* and its pixels in row-major order, a pseudo-random generator by a small *)
(* linear congruential generator.  Python's None is the empty tuple and a  *)
(* present value v the 1-tuple <<v>>.                                      *)
(***************************************************************************)
EXTENDS Integers, Sequences, FiniteSets

VARIABLES
    call,     \* the call: the function's name and its arguments
    result,   \* what the call returned or raised, once it has
    rng,      \* state of numpy's global generator (used for random_state=None)
    rs,       \* state of the caller's numpy.random.RandomState object
    pre,      \* rng and rs as they were when the call was made
    pc,       \* "call": the call is waiting to run; "done": it has returned
    before    \* what the call before returned, when it had the same arguments

vars == <<call, result, rng, rs, pre, pc, before>>

None == << >>
Some(v) == <<v>>
Val(o) == o[1]

(***************************************************************************)
(* Bounds of the model.                                                    *)
(***************************************************************************)
MaxSources == 2
MaxOversample == 2

(***************************************************************************)
(* The pseudo-random generator behind prng.normal, prng.poisson and        *)
(* prng.uniform: every sample drawn advances the generator by one step.    *)
(***************************************************************************)
PrngMod == 4
PrngStates == 0 .. PrngMod - 1

Step(s) == (5 * s + 3) % PrngMod

RECURSIVE Advance(_, _)
Advance(s, n) == IF n = 0 THEN s ELSE Advance(Step(s), n - 1)

\* numpy.random.RandomState(seed)
RandomState(seed) == seed % PrngMod

\* check_random_state: None is numpy's global generator, an int seeds a new
\* generator, a RandomState instance is used itself (and so advanced).
check_random_state(random_state, g, r) ==
    CASE random_state.kind = "None" -> [where |-> "global", state |-> g]
      [] random_state.kind = "int" ->
            [where |-> "new", state |-> RandomState(random_state.seed)]
      [] random_state.kind = "RandomState" -> [where |-> "object", state |-> r]

\* The generators after prng has drawn n samples.
Drawn(prng, n, g, r) ==
    [rng |-> IF prng.where = "global" THEN Advance(g, n) ELSE g,
     rs |-> IF prng.where = "object" THEN Advance(r, n) ELSE r]

Size(image_shape) == image_shape[1] * image_shape[2]

StdNormal(s) == (s % 3) - 1

\* prng.normal(loc, scale, size): size samples, one per generator step
normal(prng, loc, scale, size) ==
    [i \in 1 .. Size(size) |-> loc + scale * StdNormal(Advance(prng.state, i - 1))]

PoissonSample(lam, s) ==
    IF lam + StdNormal(s) < 0 THEN 0 ELSE lam + StdNormal(s)

\* prng.poisson(lam, size) with a scalar lam
poisson(prng, lam, size) ==
    [i \in 1 .. Size(size) |-> PoissonSample(lam, Advance(prng.state, i - 1))]

\* prng.poisson(image): one sample per pixel, the pixel's value its expectation
poisson_image(prng, pix) ==
    [i \in 1 .. Len(pix) |-> PoissonSample(pix[i], Advance(prng.state, i - 1))]

\* prng.uniform(low, high, n)
uniform(prng, low, high, n, skip) ==
    [i \in 1 .. n |->
        low + ((high - low) * Advance(prng.state, skip + i - 1)) \div PrngMod]

(***************************************************************************)
(* Values a call returns or raises.                                        *)
(***************************************************************************)
ndarray(image_shape, pix) ==
    [kind |-> "ndarray", shape |-> image_shape, pix |-> pix]

\* u.Quantity(image, unit=unit)
Quantity(image, unit) ==
    [kind |-> "Quantity", shape |-> image.shape, pix |-> image.pix, unit |-> unit]

Raise(exc, msg) == [kind |-> "raise", exc |-> exc, msg |-> msg]

Raised(res) == res.kind = "raise"

NoResult == [kind |-> "none"]
NoCall == [fn |-> "none"]

\* What a function leaves behind: its outcome and the two generators.
Outcome(out, g, r) == [out |-> out, rng |-> g, rs |-> r]

(***************************************************************************)
(* str.format: a template is its literal pieces and replacement fields in  *)
(* order; a field named by a number takes that positional argument, any    *)
(* other field name is looked up among the keyword arguments (KeyError     *)
(* when there is none of that name).                                       *)
(***************************************************************************)
Lit(s) == [field |-> FALSE, text |-> s]
Field(s) == [field |-> TRUE, text |-> s]

PositionalNames == <<"0", "1">>

IsPositional(name, args) ==
    \E k \in 1 .. Len(args) : k <= Len(PositionalNames) /\ PositionalNames[k] = name

Positional(name, args) ==
    args[CHOOSE k \in 1 .. Len(args) : PositionalNames[k] = name]

BadFields(template, args) ==
    {k \in 1 .. Len(template) :
        template[k].field /\ ~IsPositional(template[k].text, args)}

\* The formatted text (as its pieces), or the KeyError of the first field
\* that names no argument.
format(template, args) ==
    IF BadFields(template, args) # {}
    THEN LET k == CHOOSE j \in BadFields(template, args) :
                    \A i \in BadFields(template, args) : j <= i
         IN  Raise("KeyError", <<template[k].text>>)
    ELSE [kind |-> "str",
          text |-> [k \in 1 .. Len(template) |->
                        IF template[k].field
                        THEN Positional(template[k].text, args)
                        ELSE template[k].text]]

\* 'Invalid type: {0}. Use one of {"gaussian", "poisson"}.'
InvalidTypeTemplate ==
    <<Lit("Invalid type: "), Field("0"), Lit(". Use one of "),
      Field("\"gaussian\", \"poisson\""), Lit(".")>>

MeanMessage == <<"\"mean\" must be input">>
StddevMessage == <<"\"stddev\" must be input for Gaussian noise">>

(***************************************************************************)
(* make_noise_image                                                        *)
(***************************************************************************)
NoiseUnit(image, unit) ==
    IF unit # None THEN Quantity(image, Val(unit)) ELSE image

\* As make_noise_image, with stddev required before the type is looked at.
make_noise_image_stddev_first(image_shape, type, mean, stddev, unit, random_state, g, r) ==
    IF mean = None
    THEN Outcome(Raise("ValueError", MeanMessage), g, r)
    ELSE IF stddev = None
    THEN Outcome(Raise("ValueError", StddevMessage), g, r)
    ELSE LET prng == check_random_state(random_state, g, r)
             after == Drawn(prng, Size(image_shape), g, r)
         IN  IF type = "gaussian"
             THEN Outcome(NoiseUnit(ndarray(image_shape,
                              normal(prng, Val(mean), Val(stddev), image_shape)), unit),
                          after.rng, after.rs)
             ELSE IF type = "poisson"
             THEN Outcome(NoiseUnit(ndarray(image_shape,
                              poisson(prng, Val(mean), image_shape)), unit),
                          after.rng, after.rs)
             ELSE LET message == format(InvalidTypeTemplate, <<type>>)
                  IN  IF Raised(message)
                      THEN Outcome(message, g, r)
                      ELSE Outcome(Raise("ValueError", message.text), g, r)

make_noise_image(image_shape, type, mean, stddev, unit, random_state, g, r) ==
    IF mean = None
    THEN Outcome(Raise("ValueError", MeanMessage), g, r)
    ELSE LET prng == check_random_state(random_state, g, r)
             after == Drawn(prng, Size(image_shape), g, r)
         IN  IF type = "gaussian"
             THEN IF stddev = None
                  THEN Outcome(Raise("ValueError", StddevMessage), g, r)
                  ELSE Outcome(NoiseUnit(ndarray(image_shape,
                                  normal(prng, Val(mean), Val(stddev), image_shape)), unit),
                               after.rng, after.rs)
             ELSE IF type = "poisson"
             THEN Outcome(NoiseUnit(ndarray(image_shape,
                              poisson(prng, Val(mean), image_shape)), unit),
                          after.rng, after.rs)
             ELSE LET message == format(InvalidTypeTemplate, <<type>>)
                  IN  IF Raised(message)
                      THEN Outcome(message, g, r)
                      ELSE Outcome(Raise("ValueError", message.text), g, r)

(***************************************************************************)
(* make_poisson_noise                                                      *)
(***************************************************************************)
make_poisson_noise(image, random_state, g, r) ==
    LET prng == check_random_state(random_state, g, r)
        after == Drawn(prng, Len(image.pix), g, r)
        noise == ndarray(image.shape, poisson_image(prng, image.pix))
    IN  IF image.kind = "Quantity"
        THEN Outcome(Quantity(noise, image.unit), after.rng, after.rs)
        ELSE Outcome(noise, after.rng, after.rs)

(***************************************************************************)
(* Source tables (astropy.table.Table): named columns of equal length.     *)
(***************************************************************************)
Table(colnames, columns) == [kind |-> "Table", colnames |-> colnames, columns |-> columns]

HasColumn(table, name) == \E k \in 1 .. Len(table.colnames) : table.colnames[k] = name

NRows(table) ==
    IF table.colnames = << >> THEN 0 ELSE Len(table.columns[table.colnames[1]])

(***************************************************************************)
(* Python flags: hdu and wcs are tested for truth (wcs, not hdu) and for   *)
(* identity with True (hdu is True).                                       *)
(***************************************************************************)
Truthy(v) == v \in {"True", "1"}
IsTrue(v) == v = "True"

(***************************************************************************)
(* astropy.modeling.models.Gaussian2D.  Lengths are in pixels and theta in *)
(* quarter turns, so that a rotation exchanges the two axes of the ellipse *)
(* or leaves them; exp is tabulated in steps of a quarter, in thousandths. *)
(***************************************************************************)
ExpTable ==
    <<1000, 779, 607, 472, 368, 287, 223, 174, 135, 105, 82, 64, 50, 39, 30,
      24, 18, 14, 11, 9, 7, 5, 4, 3, 2, 2, 1, 1>>

ExpNeg(num, den) ==
    LET q == (4 * num) \div den
    IN  IF q + 1 > Len(ExpTable) THEN 0 ELSE ExpTable[q + 1]

Gaussian2D(amplitude, x_mean, y_mean, x_stddev, y_stddev, theta) ==
    [amplitude |-> amplitude, x_mean |-> x_mean, y_mean |-> y_mean,
     x_stddev |-> x_stddev, y_stddev |-> y_stddev, theta |-> theta]

\* model(x, y) at the point (x / res, y / res)
evaluate(model, x, y, res) ==
    LET sx == IF model.theta % 2 = 0 THEN model.x_stddev ELSE model.y_stddev
        sy == IF model.theta % 2 = 0 THEN model.y_stddev ELSE model.x_stddev
        dx == x - res * model.x_mean
        dy == y - res * model.y_mean
    IN  (model.amplitude
            * ExpNeg(dx * dx * sy * sy + dy * dy * sx * sx,
                     2 * res * res * sx * sx * sy * sy)) \div 1000

\* np.indices(image_shape): the (x, y) of the i-th pixel in row-major order
PixelX(image_shape, i) == (i - 1) % image_shape[2]
PixelY(image_shape, i) == (i - 1) \div image_shape[2]

\* model(x, y) over the pixel grid: the value at the centre of each pixel
PointSample(model, image_shape) ==
    [i \in 1 .. Size(image_shape) |->
        evaluate(model, PixelX(image_shape, i), PixelY(image_shape, i), 1)]

RECURSIVE SumOver(_, _, _, _, _)
SumOver(model, px, py, factor, k) ==
    IF k = 0 THEN 0
    ELSE evaluate(model,
                  2 * factor * px + 2 * ((k - 1) % factor) + 1 - factor,
                  2 * factor * py + 2 * ((k - 1) \div factor) + 1 - factor,
                  2 * factor)
         + SumOver(model, px, py, factor, k - 1)

\* discretize_model(model, (0, nx), (0, ny), mode='oversample', factor=factor):
\* each pixel is the mean of the model over factor x factor points spread
\* evenly over the pixel
discretize_model(model, image_shape, factor) ==
    [i \in 1 .. Size(image_shape) |->
        SumOver(model, PixelX(image_shape, i), PixelY(image_shape, i),
                factor, factor * factor) \div (factor * factor)]

(***************************************************************************)
(* astropy.wcs.WCS and astropy.io.fits.ImageHDU                            *)
(***************************************************************************)
WCS(header) == [kind |-> "WCS", header |-> header]

to_header(wcs) == [kind |-> "Header", cards |-> wcs.header]

\* fits.ImageHDU(image, header=header): the header must be a fits Header
ImageHDU(data, header) ==
    IF header # None /\ Val(header).kind # "Header"
    THEN Raise("ValueError", <<"header must be a Header object">>)
    ELSE [kind |-> "ImageHDU", data |-> data, header |-> header]

(***************************************************************************)
(* make_gaussian_sources                                                   *)
(***************************************************************************)
ColumnsMessage ==
    <<"either \"amplitude\" or \"flux\" must be columns in the input source_table">>
WcsMessage == <<"wcs header only works with hdu output, use keyword 'hdu=True'">>

\* flux / (2. * np.pi * x_stddev * y_stddev), with pi as 22 / 7
FluxAmplitude(source_table) ==
    [i \in 1 .. NRows(source_table) |->
        (7 * source_table.columns["flux"][i])
            \div (44 * source_table.columns["x_stddev"][i]
                     * source_table.columns["y_stddev"][i])]

\* As Amplitude, with the amplitude column looked for first.
Amplitude_amplitude_first(source_table) ==
    IF HasColumn(source_table, "amplitude")
    THEN Some(source_table.columns["amplitude"])
    ELSE IF HasColumn(source_table, "flux")
    THEN Some(FluxAmplitude(source_table))
    ELSE None

\* As Amplitude, with an amplitude of 1 when the table names neither column.
Amplitude_default(source_table) ==
    IF HasColumn(source_table, "flux")
    THEN Some(FluxAmplitude(source_table))
    ELSE IF HasColumn(source_table, "amplitude")
    THEN Some(source_table.columns["amplitude"])
    ELSE Some([i \in 1 .. NRows(source_table) |-> 1])

\* The peak amplitudes of the sources; None when the table has neither a
\* flux nor an amplitude column (the ValueError).
Amplitude(source_table) ==
    IF HasColumn(source_table, "flux")
    THEN Some(FluxAmplitude(source_table))
    ELSE IF HasColumn(source_table, "amplitude")
    THEN Some(source_table.columns["amplitude"])
    ELSE None

SourceModel(source_table, amplitude, i) ==
    Gaussian2D(amplitude[i], source_table.columns["x_mean"][i],
               source_table.columns["y_mean"][i],
               source_table.columns["x_stddev"][i],
               source_table.columns["y_stddev"][i],
               source_table.columns["theta"][i])

\* As Discretized, with every source sampled at the pixel centres.
Discretized_point_sampled(model, image_shape, oversample) ==
    PointSample(model, image_shape)

Discretized(model, image_shape, oversample) ==
    IF oversample = 1
    THEN PointSample(model, image_shape)
    ELSE discretize_model(model, image_shape, oversample)

AddImage(a, b) == [i \in 1 .. Len(a) |-> a[i] + b[i]]

\* the loop over the rows, rows i .. last still to add
RECURSIVE AddSources(_, _, _, _, _, _)
AddSources(image, image_shape, source_table, amplitude, oversample, i) ==
    IF i > NRows(source_table) THEN image
    ELSE AddSources(
            AddImage(image,
                     Discretized(SourceModel(source_table, amplitude, i),
                                 image_shape, oversample)),
            image_shape, source_table, amplitude, oversample, i + 1)

Zeros(image_shape) == [i \in 1 .. Size(image_shape) |-> 0]

DefaultWcsHeader(image_shape) ==
    [CTYPE1 |-> "RA---TAN", CTYPE2 |-> "DEC--TAN",
     CRPIX1 |-> image_shape[2] \div 2, CRPIX2 |-> image_shape[1] \div 2]

SourcesHeader(image_shape, wcs, wcsheader) ==
    IF Truthy(wcs)
    THEN IF wcsheader = None
         THEN Some(to_header(WCS(DefaultWcsHeader(image_shape))))
         ELSE Some(WCS(Val(wcsheader)))
    ELSE None

\* As WcsWithoutHdu, tested only once hdu is known to be True.
WcsWithoutHdu_inside_hdu(hdu, wcs) == IsTrue(hdu) /\ Truthy(wcs) /\ ~Truthy(hdu)

\* wcs and not hdu
WcsWithoutHdu(hdu, wcs) == Truthy(wcs) /\ ~Truthy(hdu)

make_gaussian_sources(image_shape, source_table, oversample, unit, hdu, wcs, wcsheader) ==
    IF Amplitude(source_table) = None
    THEN Raise("ValueError", ColumnsMessage)
    ELSE LET summed == ndarray(image_shape,
                          AddSources(Zeros(image_shape), image_shape, source_table,
                                     Val(Amplitude(source_table)), oversample, 1))
             image == IF unit # None THEN Quantity(summed, Val(unit)) ELSE summed
         IN  IF WcsWithoutHdu(hdu, wcs)
             THEN Raise("ValueError", WcsMessage)
             ELSE IF IsTrue(hdu)
             THEN ImageHDU(image, SourcesHeader(image_shape, wcs, wcsheader))
             ELSE image

(***************************************************************************)
(* make_random_gaussians: six columns of n_sources uniform samples each,   *)
(* drawn one column after the other from the same generator.               *)
(***************************************************************************)
RandomColumns(first, range, n_sources, xmean_range, ymean_range, xstddev_range, ystddev_range, prng) ==
    Table(<<first, "x_mean", "y_mean", "x_stddev", "y_stddev", "theta">>,
          [c \in {first, "x_mean", "y_mean", "x_stddev", "y_stddev", "theta"} |->
              CASE c = first ->
                     uniform(prng, range[1], range[2], n_sources, 0)
                [] c = "x_mean" ->
                     uniform(prng, xmean_range[1], xmean_range[2], n_sources, n_sources)
                [] c = "y_mean" ->
                     uniform(prng, ymean_range[1], ymean_range[2], n_sources, 2 * n_sources)
                [] c = "x_stddev" ->
                     uniform(prng, xstddev_range[1], xstddev_range[2], n_sources,
                             3 * n_sources)
                [] c = "y_stddev" ->
                     uniform(prng, ystddev_range[1], ystddev_range[2], n_sources,
                             4 * n_sources)
                [] c = "theta" ->
                     \* uniform(0, 2 pi), in quarter turns
                     uniform(prng, 0, 4, n_sources, 5 * n_sources)])

\* As RandomSources, with the fluxes drawn whatever amplitude_range is.
RandomSources_flux_always(n_sources, flux_range, xmean_range, ymean_range, xstddev_range, ystddev_range, amplitude_range, prng) ==
    RandomColumns("flux", flux_range, n_sources, xmean_range, ymean_range,
                  xstddev_range, ystddev_range, prng)

\* The table of sources: the flux or amplitude column, then the others.
RandomSources(n_sources, flux_range, xmean_range, ymean_range, xstddev_range, ystddev_range, amplitude_range, prng) ==
    IF amplitude_range = None
    THEN RandomColumns("flux", flux_range, n_sources, xmean_range, ymean_range,
                       xstddev_range, ystddev_range, prng)
    ELSE RandomColumns("amplitude", Val(amplitude_range), n_sources, xmean_range,
                       ymean_range, xstddev_range, ystddev_range, prng)

make_random_gaussians(n_sources, flux_range, xmean_range, ymean_range, xstddev_range, ystddev_range, amplitude_range, random_state, g, r) ==
    LET prng == check_random_state(random_state, g, r)
        after == Drawn(prng, 6 * n_sources, g, r)
    IN  Outcome(RandomSources(n_sources, flux_range, xmean_range, ymean_range,
                              xstddev_range, ystddev_range, amplitude_range, prng),
                after.rng, after.rs)

(***************************************************************************)
(* make_4gaussians_image and make_100gaussians_image.  The example images  *)
(* are scaled down: 2 x 4 pixels for 100 x 200 and 2 x 3 for 300 x 500,    *)
(* the positions and widths of the sources with them, 3 random sources for *)
(* 100; the angles are rounded to quarter turns.                           *)
(***************************************************************************)
ExampleSeed == 12345

IntSeed(seed) == [kind |-> "int", seed |-> seed]
GlobalState == [kind |-> "None"]
StateObject == [kind |-> "RandomState"]

FourGaussiansTable ==
    Table(<<"amplitude", "x_mean", "y_mean", "x_stddev", "y_stddev", "theta">>,
          [c \in {"amplitude", "x_mean", "y_mean", "x_stddev", "y_stddev", "theta"} |->
              CASE c = "amplitude" -> <<50, 70, 150, 210>>
                [] c = "x_mean" -> <<3, 0, 3, 1>>
                [] c = "y_mean" -> <<1, 0, 0, 1>>
                [] c = "x_stddev" -> <<3, 1, 1, 2>>
                [] c = "y_stddev" -> <<1, 1, 1, 1>>
                [] c = "theta" -> <<2, 0, 0, 1>>])

FourGaussiansShape == <<2, 4>>
HundredGaussiansShape == <<2, 3>>

\* image + noise, pixel by pixel
PlusNoise(image, noise) ==
    [image EXCEPT !.pix = AddImage(image.pix, noise.pix)]

\* As make_4gaussians_image, with the noise drawn without a seed.
make_4gaussians_image_unseeded(hdu, wcs, wcsheader, g, r) ==
    LET sources == make_gaussian_sources(FourGaussiansShape, FourGaussiansTable, 1,
                                         None, hdu, wcs, wcsheader)
        noise == make_noise_image(FourGaussiansShape, "gaussian", Some(5), Some(5),
                                  None, GlobalState, g, r)
    IN  IF Raised(sources) THEN Outcome(sources, g, r)
        ELSE IF IsTrue(hdu)
        THEN Outcome([sources EXCEPT !.data = PlusNoise(sources.data, noise.out)],
                     noise.rng, noise.rs)
        ELSE Outcome(PlusNoise(sources, noise.out), noise.rng, noise.rs)

make_4gaussians_image(hdu, wcs, wcsheader, g, r) ==
    LET sources == make_gaussian_sources(FourGaussiansShape, FourGaussiansTable, 1,
                                         None, hdu, wcs, wcsheader)
        noise == make_noise_image(FourGaussiansShape, "gaussian", Some(5), Some(5),
                                  None, IntSeed(ExampleSeed), g, r)
    IN  IF Raised(sources) THEN Outcome(sources, g, r)
        ELSE IF IsTrue(hdu)
        THEN Outcome([sources EXCEPT !.data = PlusNoise(sources.data, noise.out)],
                     noise.rng, noise.rs)
        ELSE Outcome(PlusNoise(sources, noise.out), noise.rng, noise.rs)

make_100gaussians_image(g, r) ==
    LET table == make_random_gaussians(3, <<500, 1000>>, <<0, 3>>, <<0, 2>>,
                                       <<1, 5>>, <<1, 5>>, None,
                                       IntSeed(ExampleSeed), g, r)
        image1 == make_gaussian_sources(HundredGaussiansShape, table.out, 1, None,
                                        "False", "False", None)
        noise == make_noise_image(HundredGaussiansShape, "gaussian", Some(5), Some(2),
                                  None, IntSeed(ExampleSeed), table.rng, table.rs)
    IN  Outcome(PlusNoise(image1, noise.out), noise.rng, noise.rs)

(***************************************************************************)
(* Arguments the calls are made with.                                      *)
(***************************************************************************)
NoiseShapes == {<<1, 2>>}
NoiseTypes == {"gaussian", "poisson", "uniform"}
Means == {None, Some(3)}
Stddevs == {None, Some(2)}
Units == {None, Some("ct")}
Seeds == {1, 2}
RandomStates == {GlobalState, StateObject} \cup {IntSeed(k) : k \in Seeds}
PoissonImages ==
    {ndarray(<<1, 2>>, <<1, 4>>), Quantity(ndarray(<<1, 2>>, <<0, 3>>), "ct")}
Flags == {"True", "False"}
FlagValues == {"True", "False", "1"}
Oversamples == 1 .. MaxOversample
WcsHeaders ==
    {None, Some([CTYPE1 |-> "RA---TAN", CTYPE2 |-> "DEC--TAN",
                 CRPIX1 |-> 1, CRPIX2 |-> 1])}
SourceShapes == {<<1, 2>>, <<2, 2>>}
FluxRanges == {<<500, 1000>>, <<100, 200>>}
AmplitudeRanges == {None, Some(<<50, 200>>)}

\* Rows a source table is made of.
SourceRows ==
    {[flux |-> 500, amplitude |-> 70, x_mean |-> 0, y_mean |-> 0,
      x_stddev |-> 1, y_stddev |-> 2, theta |-> 0],
     [flux |-> 900, amplitude |-> 150, x_mean |-> 1, y_mean |-> 1,
      x_stddev |-> 2, y_stddev |-> 1, theta |-> 1]}

ShapeColumns == <<"x_mean", "y_mean", "x_stddev", "y_stddev", "theta">>

ColumnSets ==
    {<<"flux", "amplitude">> \o ShapeColumns, <<"amplitude", "flux">> \o ShapeColumns,
     <<"flux">> \o ShapeColumns, <<"amplitude">> \o ShapeColumns, ShapeColumns}

RowSeqs == UNION {[1 .. n -> SourceRows] : n \in 0 .. MaxSources}

TableOf(colnames, rows) ==
    Table(colnames,
          [c \in {colnames[k] : k \in 1 .. Len(colnames)} |->
              [i \in 1 .. Len(rows) |-> rows[i][c]]])

\* Table(): no column and no row
EmptyTable == Table(<< >>, << >>)

SourceTables ==
    {TableOf(colnames, rows) : colnames \in ColumnSets, rows \in RowSeqs}
    \cup {EmptyTable}

(***************************************************************************)
(* The calls a caller makes.                                               *)
(***************************************************************************)
NoiseCall(image_shape, type, mean, stddev, unit, random_state) ==
    [fn |-> "make_noise_image", image_shape |-> image_shape, type |-> type,
     mean |-> mean, stddev |-> stddev, unit |-> unit, random_state |-> random_state]

PoissonCall(image, random_state) ==
    [fn |-> "make_poisson_noise", image |-> image, random_state |-> random_state]

SourcesCall(image_shape, source_table, oversample, unit, hdu, wcs, wcsheader) ==
    [fn |-> "make_gaussian_sources", image_shape |-> image_shape,
     source_table |-> source_table, oversample |-> oversample, unit |-> unit,
     hdu |-> hdu, wcs |-> wcs, wcsheader |-> wcsheader]

RandomCall(n_sources, flux_range, xmean_range, ymean_range, xstddev_range, ystddev_range, amplitude_range, random_state) ==
    [fn |-> "make_random_gaussians", n_sources |-> n_sources,
     flux_range |-> flux_range, xmean_range |-> xmean_range,
     ymean_range |-> ymean_range, xstddev_range |-> xstddev_range,
     ystddev_range |-> ystddev_range, amplitude_range |-> amplitude_range,
     random_state |-> random_state]

FourCall(hdu, wcs, wcsheader) ==
    [fn |-> "make_4gaussians_image", hdu |-> hdu, wcs |-> wcs, wcsheader |-> wcsheader]

HundredCall == [fn |-> "make_100gaussians_image"]

\* The calls of a sequence of calls, in any order.
Calls ==
    {NoiseCall(image_shape, type, mean, stddev, unit, random_state) :
        image_shape \in NoiseShapes, type \in NoiseTypes, mean \in Means,
        stddev \in Stddevs, unit \in Units, random_state \in RandomStates}
    \cup {PoissonCall(image, random_state) :
            image \in PoissonImages, random_state \in RandomStates}
    \cup {SourcesCall(<<1, 2>>, TableOf(colnames, <<row>>), oversample, None, hdu,
                      wcs, None) :
            colnames \in ColumnSets, row \in {r \in SourceRows : r.theta = 0},
            oversample \in {1, 2}, hdu \in Flags, wcs \in Flags}
    \cup {RandomCall(n_sources, flux_range, <<0, 2>>, <<0, 1>>, <<1, 3>>, <<1, 3>>,
                     amplitude_range, random_state) :
            n_sources \in 0 .. MaxSources, flux_range \in FluxRanges,
            amplitude_range \in AmplitudeRanges, random_state \in RandomStates}
    \cup {FourCall(hdu, wcs, wcsheader) :
            hdu \in Flags, wcs \in Flags, wcsheader \in WcsHeaders}
    \cup {HundredCall}

\* The table make_random_gaussians returned, put into make_gaussian_sources.
TableCalls ==
    IF result.kind = "Table"
    THEN {SourcesCall(<<1, 2>>, result, oversample, None, "False", "False", None) :
            oversample \in {1, 2}}
    ELSE {}

\* Every call make_gaussian_sources is checked with on its own.
SourcesCalls ==
    {SourcesCall(image_shape, source_table, oversample, unit, hdu, wcs, wcsheader) :
        image_shape \in SourceShapes, source_table \in SourceTables,
        oversample \in Oversamples, unit \in Units, hdu \in FlagValues,
        wcs \in FlagValues, wcsheader \in WcsHeaders}

(***************************************************************************)
(* The six functions, each run on the call that is waiting.                *)
(***************************************************************************)
Waiting(fn) == pc = "call" /\ call.fn = fn

Returns(outcome) ==
    \E o \in {outcome} :
        /\ result' = o.out
        /\ rng' = o.rng
        /\ rs' = o.rs
        /\ pc' = "done"
        /\ UNCHANGED <<call, before, pre>>

MakeNoiseImage ==
    /\ Waiting("make_noise_image")
    /\ Returns(make_noise_image(call.image_shape, call.type, call.mean, call.stddev,
                                call.unit, call.random_state, rng, rs))

MakePoissonNoise ==
    /\ Waiting("make_poisson_noise")
    /\ Returns(make_poisson_noise(call.image, call.random_state, rng, rs))

MakeGaussianSources ==
    /\ Waiting("make_gaussian_sources")
    /\ Returns(Outcome(make_gaussian_sources(call.image_shape, call.source_table,
                                             call.oversample, call.unit, call.hdu,
                                             call.wcs, call.wcsheader),
                       rng, rs))

MakeRandomGaussians ==
    /\ Waiting("make_random_gaussians")
    /\ Returns(make_random_gaussians(call.n_sources, call.flux_range,
                                     call.xmean_range, call.ymean_range,
                                     call.xstddev_range, call.ystddev_range,
                                     call.amplitude_range, call.random_state,
                                     rng, rs))

Make4GaussiansImage ==
    /\ Waiting("make_4gaussians_image")
    /\ Returns(make_4gaussians_image(call.hdu, call.wcs, call.wcsheader, rng, rs))

Make100GaussiansImage ==
    /\ Waiting("make_100gaussians_image")
    /\ Returns(make_100gaussians_image(rng, rs))

\* The caller makes its next call; before keeps what the last call returned
\* when the next call has the very same arguments.
NextCall ==
    /\ pc = "done"
    /\ \E c \in Calls \cup TableCalls :
        /\ call' = c
        /\ before' = IF c = call THEN result ELSE NoResult
    /\ result' = NoResult
    /\ pre' = [rng |-> rng, rs |-> rs]
    /\ pc' = "call"
    /\ UNCHANGED <<rng, rs>>

Init ==
    /\ call \in Calls
    /\ result = NoResult
    /\ before = NoResult
    /\ rng \in PrngStates
    /\ rs \in PrngStates
    /\ pre = [rng |-> rng, rs |-> rs]
    /\ pc = "call"

Next ==
    \/ MakeNoiseImage
    \/ MakePoissonNoise
    \/ MakeGaussianSources
    \/ MakeRandomGaussians
    \/ Make4GaussiansImage
    \/ Make100GaussiansImage
    \/ NextCall

Spec == Init /\ [][Next]_vars

(***************************************************************************)
(* make_gaussian_sources on its own: one call, of any arguments.           *)
(***************************************************************************)
InitSources ==
    /\ call \in SourcesCalls
    /\ result = NoResult
    /\ before = NoResult
    /\ rng = 0
    /\ rs = 0
    /\ pre = [rng |-> rng, rs |-> rs]
    /\ pc = "call"

NextSources == MakeGaussianSources

SpecSources == InitSources /\ [][NextSources]_vars

(***************************************************************************)
(* Properties.                                                             *)
(***************************************************************************)
Seeded(random_state) == random_state.kind = "int"

\* The image a call returned: the array itself, or the data of the HDU.
ImageOf(res) == IF res.kind = "ImageHDU" THEN res.data ELSE res

\* C1: two separate calls of make_noise_image, or of make_random_gaussians,
\* with the same parameters and the same random_state argument, an int seed
\* or a RandomState, return identical outputs.
C1_SameSeedSameOutput ==
    (/\ pc = "done"
     /\ before # NoResult
     /\ call.fn \in {"make_noise_image", "make_random_gaussians"}
     /\ call.random_state.kind \in {"int", "RandomState"})
    => result = before

\* C2: make_noise_image with a mean and a type that is neither 'gaussian' nor
\* 'poisson' raises a ValueError whose message names the invalid type and the
\* allowed values 'gaussian' and 'poisson'.
C2_InvalidTypeValueError ==
    (/\ pc = "done"
     /\ call.fn = "make_noise_image"
     /\ call.mean # None
     /\ call.type \notin {"gaussian", "poisson"})
    => /\ Raised(result)
       /\ result.exc = "ValueError"
       /\ result.msg = <<"Invalid type: ", call.type, ". Use one of ",
                         "{\"gaussian\", \"poisson\"}", ".">>

\* C3: make_noise_image raises ValueError('"mean" must be input') when mean is
\* None, whatever the type and the other arguments; with a mean, Gaussian
\* noise without stddev raises ValueError, and Poisson noise returns an image
\* with or without stddev, the same image whatever stddev is.
C3_MeanAndStddevRequired ==
    (pc = "done" /\ call.fn = "make_noise_image")
    => /\ call.mean = None => result = Raise("ValueError", MeanMessage)
       /\ (call.mean # None /\ call.type = "gaussian" /\ call.stddev = None)
          => (Raised(result) /\ result.exc = "ValueError")
       /\ (call.mean # None /\ call.type = "poisson")
          => /\ ~Raised(result)
             /\ result.shape = call.image_shape
             /\ \A stddev \in Stddevs :
                    result = make_noise_image(call.image_shape, call.type, call.mean,
                                              stddev, call.unit, call.random_state,
                                              pre.rng, pre.rs).out

C3_Witness ==
    /\ pc = "done"
    /\ call.fn = "make_noise_image"
    /\ call.type = "poisson"
    /\ call.mean # None
    /\ call.stddev = None
    /\ result.kind = "ndarray"

(***************************************************************************)
(* What the properties of make_gaussian_sources are stated with.           *)
(***************************************************************************)
Done(fn) == pc = "done" /\ call.fn = fn

HasAmplitudeOrFlux(table) == HasColumn(table, "flux") \/ HasColumn(table, "amplitude")

DropColumn(table, name) ==
    Table(SelectSeq(table.colnames, LAMBDA c : c # name),
          [c \in (DOMAIN table.columns) \ {name} |-> table.columns[c]])

ReverseRows(table) ==
    Table(table.colnames,
          [c \in DOMAIN table.columns |->
              [i \in 1 .. NRows(table) |-> table.columns[c][NRows(table) + 1 - i]]])

\* The sum at pixel i of the first k images.
RECURSIVE Total(_, _, _)
Total(images, i, k) == IF k = 0 THEN 0 ELSE images[k][i] + Total(images, i, k - 1)

\* The image of each row of the call's table, given the peak amplitudes:
\* sampled at the pixel centres when oversample is 1, averaged over the
\* oversampled grid otherwise.
RowImages(amplitude) ==
    [k \in 1 .. NRows(call.source_table) |->
        IF call.oversample = 1
        THEN PointSample(SourceModel(call.source_table, amplitude, k),
                         call.image_shape)
        ELSE discretize_model(SourceModel(call.source_table, amplitude, k),
                              call.image_shape, call.oversample)]

IsSumOfRows(pix, amplitude) ==
    /\ Len(pix) = Size(call.image_shape)
    /\ \A i \in 1 .. Len(pix) :
        pix[i] = Total(RowImages(amplitude), i, NRows(call.source_table))

SameCallWithTable(table) ==
    make_gaussian_sources(call.image_shape, table, call.oversample, call.unit,
                          call.hdu, call.wcs, call.wcsheader)

\* C4: with both a flux and an amplitude column the amplitude column is
\* ignored: each source's peak is flux / (2 pi x_stddev y_stddev) of its row
\* and the call returns what it returns for the table without the amplitude
\* column; the amplitude column gives the peaks only when there is no flux.
C4_FluxBeforeAmplitude ==
    Done("make_gaussian_sources")
    => /\ (HasColumn(call.source_table, "flux")
            /\ HasColumn(call.source_table, "amplitude"))
          => /\ result = SameCallWithTable(DropColumn(call.source_table, "amplitude"))
             /\ ~Raised(result)
                => IsSumOfRows(ImageOf(result).pix,
                     [k \in 1 .. NRows(call.source_table) |->
                        (7 * call.source_table.columns["flux"][k])
                        \div (44 * call.source_table.columns["x_stddev"][k]
                                 * call.source_table.columns["y_stddev"][k])])
       /\ (~HasColumn(call.source_table, "flux")
            /\ HasColumn(call.source_table, "amplitude")
            /\ ~Raised(result))
          => IsSumOfRows(ImageOf(result).pix, call.source_table.columns["amplitude"])

C4_Witness ==
    /\ Done("make_gaussian_sources")
    /\ call.hdu = "False"
    /\ call.wcs = "False"
    /\ HasColumn(call.source_table, "flux")
    /\ HasColumn(call.source_table, "amplitude")
    /\ NRows(call.source_table) = 2
    /\ result.kind = "ndarray"
    /\ result # SameCallWithTable(DropColumn(call.source_table, "flux"))

\* C5: make_gaussian_sources on a table with neither a flux nor an amplitude
\* column raises the ValueError that says so, whatever the other arguments
\* are and also when the table has no row.
C5_NeitherColumnRaises ==
    (Done("make_gaussian_sources") /\ ~HasAmplitudeOrFlux(call.source_table))
    => result = Raise("ValueError", ColumnsMessage)

C5_Witness ==
    /\ Done("make_gaussian_sources")
    /\ ~HasAmplitudeOrFlux(call.source_table)
    /\ NRows(call.source_table) = 0
    /\ call.hdu = "True"
    /\ call.wcs = "True"
    /\ Raised(result)

\* C6: make_gaussian_sources with wcs=True and hdu=False, on a table with a
\* flux or an amplitude column, raises the ValueError saying that a WCS
\* header needs hdu output, whatever wcsheader and unit are.
C6_WcsWithoutHduRaises ==
    (/\ Done("make_gaussian_sources")
     /\ HasAmplitudeOrFlux(call.source_table)
     /\ call.wcs = "True"
     /\ call.hdu = "False")
    => result = Raise("ValueError", WcsMessage)

C6_Witness ==
    /\ Done("make_gaussian_sources")
    /\ HasAmplitudeOrFlux(call.source_table)
    /\ call.wcs = "True"
    /\ call.hdu = "False"
    /\ call.unit # None
    /\ call.wcsheader # None
    /\ Raised(result)

\* C7: with hdu=False the result is a plain array (a Quantity when a unit is
\* given), with hdu=True an ImageHDU holding that image; its header is absent
\* with wcs=False, and with wcs=True a FITS header made from a WCS: from the
\* default TAN WCS when wcsheader is None, from WCS(wcsheader) otherwise.
C7_OutputForm ==
    (/\ Done("make_gaussian_sources")
     /\ HasAmplitudeOrFlux(call.source_table)
     /\ call.hdu \in {"True", "False"}
     /\ call.wcs \in {"True", "False"}
     /\ ~(call.wcs = "True" /\ call.hdu = "False"))
    => /\ call.hdu = "False"
          => result.kind = (IF call.unit = None THEN "ndarray" ELSE "Quantity")
       /\ call.hdu = "True"
          => /\ result.kind = "ImageHDU"
             /\ result.data.kind = (IF call.unit = None THEN "ndarray" ELSE "Quantity")
             /\ call.wcs = "False" => result.header = None
             /\ call.wcs = "True"
                => /\ result.header # None
                   /\ Val(result.header).kind = "Header"
                   /\ Val(result.header).cards =
                        (IF call.wcsheader = None
                         THEN DefaultWcsHeader(call.image_shape)
                         ELSE Val(call.wcsheader))

\* C10: the image has the shape image_shape and is, pixel by pixel, the sum
\* over the rows of the table of the row's discretized Gaussian, added to
\* zeros, whatever the order of the rows; a source is sampled at the pixel
\* centres when oversample is 1 and averaged over the grid oversampled by
\* that factor otherwise.
C10_ImageIsSumOfSources ==
    (Done("make_gaussian_sources") /\ ~Raised(result))
    => /\ ImageOf(result).shape = call.image_shape
       /\ IsSumOfRows(ImageOf(result).pix, Val(Amplitude(call.source_table)))
       /\ NRows(call.source_table) = 0
          => ImageOf(result).pix = [i \in 1 .. Size(call.image_shape) |-> 0]
       /\ result = SameCallWithTable(ReverseRows(call.source_table))

C10_Witness ==
    /\ Done("make_gaussian_sources")
    /\ call.hdu = "False"
    /\ call.wcs = "False"
    /\ call.oversample = 2
    /\ NRows(call.source_table) = 2
    /\ call.source_table # ReverseRows(call.source_table)
    /\ result.kind = "ndarray"
    /\ result # make_gaussian_sources(call.image_shape, call.source_table, 1,
                                      call.unit, call.hdu, call.wcs, call.wcsheader)

(***************************************************************************)
(* What the properties of the calls in sequence are stated with.           *)
(***************************************************************************)
ColumnSet(table) == {table.colnames[k] : k \in 1 .. Len(table.colnames)}

ShapeColumnSet == {ShapeColumns[k] : k \in 1 .. Len(ShapeColumns)}

Within(column, range) ==
    \A i \in 1 .. Len(column) : range[1] <= column[i] /\ column[i] <= range[2]

\* What a call returns when it is made with the generators in the states g
\* and r.
Run(c, g, r) ==
    CASE c.fn = "make_noise_image" ->
            make_noise_image(c.image_shape, c.type, c.mean, c.stddev, c.unit,
                             c.random_state, g, r).out
      [] c.fn = "make_poisson_noise" ->
            make_poisson_noise(c.image, c.random_state, g, r).out
      [] c.fn = "make_gaussian_sources" ->
            make_gaussian_sources(c.image_shape, c.source_table, c.oversample,
                                  c.unit, c.hdu, c.wcs, c.wcsheader)
      [] c.fn = "make_random_gaussians" ->
            make_random_gaussians(c.n_sources, c.flux_range, c.xmean_range,
                                  c.ymean_range, c.xstddev_range, c.ystddev_range,
                                  c.amplitude_range, c.random_state, g, r).out
      [] c.fn = "make_4gaussians_image" ->
            make_4gaussians_image(c.hdu, c.wcs, c.wcsheader, g, r).out
      [] c.fn = "make_100gaussians_image" ->
            make_100gaussians_image(g, r).out

\* The call takes no random_state, or takes an integer seed.
FixedSeed(c) ==
    \/ c.fn \in {"make_gaussian_sources", "make_4gaussians_image",
                 "make_100gaussians_image"}
    \/ /\ c.fn \in {"make_noise_image", "make_poisson_noise", "make_random_gaussians"}
       /\ Seeded(c.random_state)

\* C8: the table make_random_gaussians returns has n_sources rows and the
\* columns x_mean, y_mean, x_stddev, y_stddev, theta and one more: amplitude,
\* drawn from amplitude_range whatever flux_range is, when amplitude_range is
\* given, and flux, drawn from flux_range, otherwise.  make_gaussian_sources
\* finds its amplitude or flux column and does not raise on it.
C8_RandomTableColumns ==
    Done("make_random_gaussians")
    => /\ result.kind = "Table"
       /\ Len(result.colnames) = 6
       /\ DOMAIN result.columns = ColumnSet(result)
       /\ \A c \in ColumnSet(result) : Len(result.columns[c]) = call.n_sources
       /\ NRows(result) = call.n_sources
       /\ call.amplitude_range # None
          => /\ ColumnSet(result) = {"amplitude"} \cup ShapeColumnSet
             /\ Within(result.columns["amplitude"], Val(call.amplitude_range))
             /\ \A flux_range \in FluxRanges :
                  result = Run([call EXCEPT !.flux_range = flux_range], pre.rng, pre.rs)
       /\ call.amplitude_range = None
          => /\ ColumnSet(result) = {"flux"} \cup ShapeColumnSet
             /\ Within(result.columns["flux"], call.flux_range)
       /\ Amplitude(result) # None
       /\ \A oversample \in {1, 2} :
            make_gaussian_sources(<<1, 2>>, result, oversample, None, "False",
                                  "False", None).kind = "ndarray"

C8_Witness ==
    /\ Done("make_random_gaussians")
    /\ call.amplitude_range # None
    /\ call.n_sources = 2
    /\ HasColumn(result, "amplitude")
    /\ ~HasColumn(result, "flux")

\* C9: a call that takes an integer seed, or none because it fixes the seed
\* itself, returns what its arguments alone decide, whatever calls came
\* before it and in whatever states they left the generators; it returns the
\* same again when it is repeated, and leaves the generators as they were, so
\* that it changes no later call's result.
C9_SeededCallsAreStateless ==
    (pc = "done" /\ FixedSeed(call))
    => /\ \A g \in PrngStates, r \in PrngStates : Run(call, g, r) = result
       /\ before # NoResult => result = before
       /\ rng = pre.rng
       /\ rs = pre.rs

C9_Witness ==
    /\ Done("make_4gaussians_image")
    /\ before # NoResult
    /\ result.kind = "ImageHDU"
    /\ result = before

\* C11: make_gaussian_sources never drops a WCS request silently: whatever
\* values hdu and wcs are given as flags (True, False, or another true value
\* such as 1), a call with a true wcs raises ValueError or returns an
\* ImageHDU whose header carries the WCS, and a call with a true hdu that
\* returns, returns an ImageHDU, never a bare array.
C11_WcsNeverDropped ==
    (Done("make_gaussian_sources") /\ HasAmplitudeOrFlux(call.source_table))
    => /\ Truthy(call.wcs)
          => \/ Raised(result) /\ result.exc = "ValueError"
             \/ result.kind = "ImageHDU" /\ result.header # None
       /\ (Truthy(call.hdu) /\ ~Raised(result)) => result.kind = "ImageHDU"

====
